---- MODULE Spec2Model ----
(***************************************************************************)
(* A model of koodyu/v2x-qos-prediction: the traffic generator thread      *)
(* (traffic_generator.py, run_traffic_scenario), the collector main()      *)
(* (collect_data.py) with its sampling loop, the shared traffic_status     *)
(* dictionary behind status_lock, and find_uplink_interface.               *)
(*                                                                         *)
(* Time is counted in units of 40 microseconds (25000 units per second),   *)
(* so that round(dt, 4) (quantum 2.5 units) and round(elapsed_wall, 3)     *)
(* (quantum 25 units) never meet an exact tie.  time.monotonic() is the    *)
(* variable mono; time.time() is mono + woff, and woff moves when the      *)
(* system clock is adjusted.                                               *)
(*                                                                         *)
(* Python lists are heap cells: a variable holding a list holds an         *)
(* address, heap[address] is the list's content, 0 is "no list".           *)
(***************************************************************************)
EXTENDS Integers, Sequences, FiniteSets, TLC

VARIABLES
    mono,               \* time.monotonic()
    woff,               \* time.time() - time.monotonic()
    nadj,               \* number of system clock adjustments so far
    topo,               \* zone switch name -> its intfList() (a sequence of interfaces)
    shutdown,           \* collect_data.shutdown
    traffic_status,     \* traffic_generator.traffic_status
    status_lock,        \* holder of traffic_generator.status_lock: "free", "tg", "main"
    heap,               \* address -> content of the list object at that address
    last_write,         \* the pair (label, active list) the latest writer set out to write
    tg,                 \* the locals and position of run_traffic_scenario
    flow_started,       \* some call of start_iperf_flow has been made
    node_locks,         \* traffic_generator.node_locks: the node names whose lock is held
    rng,                \* number of values drawn from the random module since random.seed(42)
    m,                  \* the locals and position of collect_data.main()
    prev_host_stats,    \* node_id -> (tx_bytes, rx_bytes)
    prev_host_qdrops,   \* node_id -> total drops of the host queue
    prev_switch_qdrops, \* zone -> total drops of the uplink queue
    curr_sw_drops_delta,\* zone -> drop delta of this tick
    row,                \* the values main() assembles for writer.writerow of one endpoint
    rows_written,       \* collect_data.rows_written
    intfs,              \* argument of find_uplink_interface: switch_node.intfList()
    found               \* result of find_uplink_interface ("pending" before the call)

vars == <<mono, woff, nadj, topo, shutdown, traffic_status, status_lock, heap, last_write,
          tg, flow_started, node_locks, rng, m, prev_host_stats, prev_host_qdrops,
          prev_switch_qdrops, curr_sw_drops_delta, row, rows_written, intfs, found>>

flowVars == <<flow_started, node_locks>>

-----------------------------------------------------------------------------
(* Bounds of the model *)

\* run_traffic_scenario starts at most MaxCycles cycles
MaxCycles == 1
\* the system clock is adjusted at most MaxAdjust times
MaxAdjust == 1
\* number of heap cells for list objects
HeapSize == 5
\* intfList() has at most MaxIntfs interfaces in the find_uplink_interface inputs
MaxIntfs == 3

-----------------------------------------------------------------------------
(* Time *)

UnitsPerSecond == 25 * 1000
Sec(n) == n * UnitsPerSecond
\* tenths of a second
Tenth(n) == n * (UnitsPerSecond \div 10)

Max(a, b) == IF a >= b THEN a ELSE b
Min(a, b) == IF a <= b THEN a ELSE b

\* The n-th value (n = 0, 1, ...) that the generator of the random module yields
\* after random.seed(42): one fixed sequence, whatever thread draws
random(n) == (3 * n) % 8

\* random.uniform(a, b) as draw number n: the two ends of the range stand for the
\* range; the seeded generator answers one of them, an environment that draws widely
\* answers either
Uniform(P, n, a, b) == IF P.wide THEN {a, b} ELSE {IF random(n) % 2 = 0 THEN a ELSE b}

\* random.randint(a, b) as draw number n of the seeded generator
randint(n, a, b) == a + (random(n) % (b - a + 1))

\* random.randint(a, b) as draw number n
RandInt(P, n, a, b) == IF P.wide THEN a..b ELSE {randint(n, a, b)}

\* The integer nearest to num/den (den > 0), ties to the even one: Python's round().
RoundHalfEven(num, den) ==
    LET q == (2 * num + den) \div (2 * den)
        tie == (2 * num + den) % (2 * den) = 0
    IN  IF tie /\ q % 2 # 0 THEN q - 1 ELSE q

\* round(dt, 4), in units of 0.0001 s
Round4(t) == RoundHalfEven(t * 2, UnitsPerSecond \div 5000)
\* round(elapsed_wall, 3), in units of 0.001 s
Round3(t) == RoundHalfEven(t, UnitsPerSecond \div 1000)

-----------------------------------------------------------------------------
(* collect_data.py: configuration *)

DURATION == Sec(2400)
SAMPLE_INTERVAL == Tenth(5)
N_HOSTS == 14
CORE_SWITCH_NAME == "s_core"

Hosts == 1..N_HOSTS
HostNames == <<"h1", "h2", "h3", "h4", "h5", "h6", "h7",
               "h8", "h9", "h10", "h11", "h12", "h13", "h14">>
\* "h{}".format(i)
HostName(i) == HostNames[i]
Zones == <<"highway", "urban", "suburb">>
ZoneSwitch == [highway |-> "s_hw", urban |-> "s_urb", suburb |-> "s_sub"]

get_zone(node_id) ==
    IF node_id <= 4 THEN "highway"
    ELSE IF node_id <= 10 THEN "urban"
    ELSE "suburb"

-----------------------------------------------------------------------------
(* Scenario labels.  A label is a sequence of tokens, so that               *)
(* str.startswith is a prefix test; None is a label of its own.             *)

None == <<"None">>
L_A == <<"A-Highway">>
L_A_done == <<"A-Highway", "-done">>
L_B == <<"B-Urban">>
L_B_done == <<"B-Urban", "-done">>
L_C == <<"C-Suburb">>
L_C_done == <<"C-Suburb", "-done">>
L_stopped == <<"stopped">>
L_idle == <<"idle">>

startswith(s, prefix) ==
    /\ Len(s) >= Len(prefix)
    /\ SubSeq(s, 1, Len(prefix)) = prefix

normalize_scenario_name(raw_name) ==
    IF raw_name = None \/ raw_name = <<>> THEN L_idle
    ELSE IF startswith(raw_name, L_A) THEN L_A
    ELSE IF startswith(raw_name, L_B) THEN L_B
    ELSE IF startswith(raw_name, L_C) THEN L_C
    ELSE L_idle

-----------------------------------------------------------------------------
(* traffic_generator.py: scenario parameters *)

HW_NODES == <<"h1", "h2", "h3", "h4">>
HW_DUR_MIN == Sec(4)
HW_DUR_MAX == Sec(10)
HW_GAP_MIN == Sec(2)
HW_GAP_MAX == Sec(6)
URBAN_CENTER == "h6"
URBAN_NEIGHBORS == <<"h5", "h7", "h9", "h10">>
URB_CENTER_DUR_MIN == Sec(6)
URB_CENTER_DUR_MAX == Sec(15)
URB_NEI_DUR_MIN == Sec(4)
URB_NEI_DUR_MAX == Sec(12)
URB_DIFFUSE_DELAY_MIN == Sec(1)
URB_DIFFUSE_DELAY_MAX == Sec(3)
SUBURB_NODES == <<"h11", "h12", "h13", "h14">>
SUB_DUR_MIN == Sec(3)
SUB_DUR_MAX == Sec(10)

\* duration_limit=None
NoLimit == 0 - 1

Range(s) == {s[i] : i \in 1..Len(s)}

\* [n for n in names if n in keep]
Filter(names, keep) ==
    LET F[i \in 0..Len(names)] ==
            IF i = 0 THEN <<>>
            ELSE IF names[i] \in keep THEN Append(F[i - 1], names[i]) ELSE F[i - 1]
    IN  F[Len(names)]

\* the upper bound of k without the cap of 3: len(suburb_hosts)
SuburbPickAll(n) == n

\* the upper bound of k at line 334: min(3, len(suburb_hosts))
SuburbPick(n) == Min(3, n)

\* random.sample(population, k) as draw number n of the seeded generator: the first
\* k elements of the population rotated by the value the generator yields
sample(n, population, k) ==
    LET r == random(n) % Len(population)
    IN  SubSeq(SubSeq(population, r + 1, Len(population)) \o SubSeq(population, 1, r),
               1, k)

\* random.sample(population, k) as draw number n: the sequences of k distinct elements
Sample(P, n, population, k) ==
    IF P.wide
    THEN {s \in [1..k -> Range(population)] : \A i, j \in 1..k : i # j => s[i] # s[j]}
    ELSE {sample(n, population, k)}

-----------------------------------------------------------------------------
(* The heap of list objects *)

Addr == 1..HeapSize

Roots(ts, g, c) ==
    {ts.active_nodes, g.active, g.upd_nodes, c.status.active_nodes, c.active_nodes} \ {0}

\* the address a new list object gets: the lowest one that nothing refers to
Alloc(roots) == CHOOSE a \in Addr : a \notin roots /\ \A b \in Addr \ roots : a <= b

\* list objects nothing refers to are gone
Collect(h, roots) == [a \in Addr |-> IF a \in roots THEN h[a] ELSE <<>>]

\* the content a list variable denotes
Deref(h, a) == IF a = 0 THEN <<>> ELSE h[a]

-----------------------------------------------------------------------------
(* Initial values of the program's state *)

TrafficStatusInit ==
    [running |-> FALSE, current_scenario |-> None, active_nodes |-> 1, cycle_count |-> 0]

NoNet == [none |-> TRUE, hosts |-> {}]
Net(hs) == [none |-> FALSE, hosts |-> hs]

TgInit ==
    [pc |-> "unstarted", net |-> NoNet, duration_limit |-> NoLimit, valid_hosts |-> {},
     start_time |-> 0, cycle |-> 0, active |-> 0, i |-> 0, targets |-> <<>>,
     max_dur |-> 0, max_dur_sub |-> 0, gap |-> 0,
     upd_scenario |-> None, upd_nodes |-> 0, upd_ret |-> "", cmd_node |-> "",
     raised |-> FALSE, bw |-> 0, dur |-> 0, n_flows |-> 0,
     duration_sec |-> 0, last_start |-> 0, longest |-> 0, flows_over |-> 0]

NoStatus ==
    [running |-> FALSE, current_scenario |-> None, active_nodes |-> 0, cycle_count |-> 0]

MInit ==
    [pc |-> "resolve", servers |-> FALSE,
     hw_intf |-> "None", urb_intf |-> "None", sub_intf |-> "None",
     start_time_wall |-> 0, start_time_mono |-> 0, last_loop_time |-> 0, loop_start |-> 0,
     elapsed_wall |-> 0, dt |-> 0, dt_measured |-> 0, ticks |-> 0,
     status |-> NoStatus, norm_scenario |-> L_idle, active_nodes |-> 0,
     snap_nodes |-> <<>>, snap_write |-> <<None, <<>>>>, cmd_node |-> ""]

NoRow ==
    [assembled |-> FALSE, timestamp |-> 0, dt |-> 0, node_id |-> 0, zone |-> "",
     tx_mbps |-> 0, rx_mbps |-> 0, host_queue_drops |-> 0, switch_queue_drops |-> 0,
     scenario |-> L_idle, is_active |-> 0,
     tx_prev |-> 0, tx_curr |-> 0, rx_prev |-> 0, rx_curr |-> 0,
     hq_prev |-> 0, hq_curr |-> 0, sq_prev |-> 0, sq_curr |-> 0]

-----------------------------------------------------------------------------
(* The environment *)

\* time.time()
Wall == mono + woff

\* the interpreter is gone once main() has returned or raised: the generator thread
\* is a daemon thread and ends with it
MainDead == m.pc \in {"done", "raised", "aborted"}

\* SIGINT / SIGTERM: signal_handler
signal_handler ==
    /\ ~MainDead
    /\ m.pc # "harness"
    /\ ~shutdown
    /\ shutdown' = TRUE
    /\ UNCHANGED <<mono, woff, nadj, topo, traffic_status, status_lock, heap, last_write, tg,
                   flowVars, rng, m, prev_host_stats, prev_host_qdrops, prev_switch_qdrops,
                   curr_sw_drops_delta, row, rows_written, intfs, found>>

\* the system clock is adjusted (NTP step, settimeofday): time.time() jumps,
\* time.monotonic() does not
AdjustSystemClock(P) ==
    /\ ~MainDead
    /\ nadj < MaxAdjust
    /\ \E d \in P.clock : woff' = woff + d
    /\ nadj' = nadj + 1
    /\ UNCHANGED <<mono, topo, shutdown, traffic_status, status_lock, heap, last_write, tg,
                   flowVars, rng, m, prev_host_stats, prev_host_qdrops, prev_switch_qdrops,
                   curr_sw_drops_delta, row, rows_written, intfs, found>>

-----------------------------------------------------------------------------
(* traffic_generator.py: the shared status *)

\* traffic_status.copy() under status_lock: the dictionary is copied, the list it
\* refers to is not
get_traffic_status == traffic_status

\* the lock of "with status_lock:" can be taken
StatusLockFree == status_lock = "free"

\* list(nodes) if nodes else []
CopyOfNodes(h, nodes) == IF Deref(h, nodes) # <<>> THEN Deref(h, nodes) ELSE <<>>

\* update_status without list(): traffic_status["active_nodes"] = nodes if nodes else []
StoreNodesAlias(h, a, nodes) ==
    IF Deref(h, nodes) # <<>>
    THEN [ref |-> nodes, heap |-> h]
    ELSE [ref |-> a, heap |-> [h EXCEPT ![a] = <<>>]]

\* what traffic_status["active_nodes"] is assigned in update_status: a new list object
\* at address a, holding a copy of nodes
StoreNodes(h, a, nodes) == [ref |-> a, heap |-> [h EXCEPT ![a] = CopyOfNodes(h, nodes)]]

-----------------------------------------------------------------------------
(* traffic_generator.py: run_traffic_scenario, one action per step.  An action   *)
(* that draws a random number takes the environment P that answers the draw.     *)

samplerVars == <<prev_host_stats, prev_host_qdrops, prev_switch_qdrops,
                 curr_sw_drops_delta, row, rows_written>>
uplinkVars == <<intfs, found>>

\* a step of the generator thread that leaves g as its locals, ts as the shared
\* status and h as the heap, and has drawn n values from the random module
TgDrawStep(g, ts, h, n) ==
    /\ rng' = rng + n
    /\ tg' = g
    /\ traffic_status' = ts
    /\ heap' = Collect(h, Roots(ts, g, m))
    /\ UNCHANGED <<woff, nadj, topo, shutdown, m, samplerVars, uplinkVars>>

\* a step of the generator thread that draws no random value
TgStep(g, ts, h) == TgDrawStep(g, ts, h, 0)

\* a step of the generator thread that touches its locals only
TgLocal(g) ==
    /\ TgStep(g, traffic_status, heap)
    /\ UNCHANGED <<mono, status_lock, last_write, flowVars>>

\* time.sleep(t): the thread goes on t later
sleep(t) == mono' = mono + t

\* a step of the generator thread that ends in time.sleep(t)
TgSleep(g, t) ==
    /\ TgStep(g, traffic_status, heap)
    /\ sleep(t)
    /\ UNCHANGED <<status_lock, last_write>>

\* duration_limit is not None and elapsed > duration_limit
LimitExceeded ==
    /\ tg.duration_limit # NoLimit
    /\ Wall - tg.start_time > tg.duration_limit

\* the call update_status(scenario, nodes), returning to pc
Calling(g, scenario, nodes, pc) ==
    [g EXCEPT !.pc = "update_status", !.upd_scenario = scenario, !.upd_nodes = nodes,
              !.upd_ret = pc]

\* the flows of a scenario are forgotten once its "-done" label is settled:
\* g.last_start is the time (time.monotonic()) of the latest call of start_iperf_flow
\* of the scenario, g.longest the longest duration_sec of its calls, g.flows_over
\* the time at which the last of its flows ends
PhaseOver(g) == [g EXCEPT !.last_start = 0, !.longest = 0, !.flows_over = 0]

\* the locals that are dead once the loop is left
LeftLoop(g) ==
    PhaseOver([g EXCEPT !.active = 0, !.i = 0, !.targets = <<>>, !.max_dur = 0,
                        !.max_dur_sub = 0, !.gap = 0, !.upd_scenario = None,
                        !.upd_nodes = 0, !.upd_ret = "", !.bw = 0, !.dur = 0,
                        !.duration_sec = 0])

\* the lock of a node after host.cmd has returned or raised without the finally clause:
\* released on success only
LockAfterCmdOnSuccess(locks, node_name, raised) ==
    IF raised THEN locks ELSE locks \ {node_name}

\* start_iperf_flow, lines 109-113: whether host.cmd returned or raised, the finally
\* clause releases the lock of the node
LockAfterCmd(locks, node_name, raised) == locks \ {node_name}

\* start_iperf_flow(host, ...), lines 82-107, called with g as the locals of the
\* caller, who drew n random values for it in the same step: the lock of the node is
\* taken and host.cmd is entered; the thread is inside the command at position pc
start_iperf_flow(g, node_name, pc, n) ==
    /\ node_name \notin node_locks
    /\ node_locks' = node_locks \cup {node_name}
    /\ TgDrawStep([g EXCEPT !.pc = pc, !.cmd_node = node_name,
                            !.n_flows = g.n_flows + 1,
                            !.last_start = mono,
                            !.longest = Max(g.longest, g.duration_sec),
                            !.flows_over = Max(g.flows_over, mono + g.duration_sec)],
                  traffic_status, heap, n)
    /\ UNCHANGED <<status_lock, last_write, flow_started>>

\* start_iperf_flow, lines 107-113: host.cmd returns, or raises and the exception is
\* caught; the lock is released and start_iperf_flow returns
host_cmd_returns ==
    /\ tg.cmd_node # ""
    /\ \E raised \in BOOLEAN :
          node_locks' = LockAfterCmd(node_locks, tg.cmd_node, raised)
    /\ flow_started' = TRUE

\* the arguments of one call of start_iperf_flow made under the scenario label phase:
\* bw and dur are named by the numbers of the draws that yield them
FlowStart(phase, node_name, bw) ==
    [phase |-> phase, node |-> node_name, bw |-> bw, dur |-> bw + 1]

\* lines 217-241 read without clock and status: the flows of scenario A when the
\* generator stands at draw number base, and the draw number after them
HighwayFlows(valid_hosts, base) ==
    LET nodes == Filter(HW_NODES, valid_hosts)
    IN  [flows |-> [j \in 1..Len(nodes) |-> FlowStart(L_A, nodes[j], base + 3 * (j - 1))],
         next |-> base + 3 * Len(nodes)]

\* lines 260-308 read without clock and status: the flows of scenario B
UrbanFlows(valid_hosts, base) ==
    LET center == IF URBAN_CENTER \in valid_hosts
                  THEN <<FlowStart(L_B, URBAN_CENTER, base)>>
                  ELSE <<>>
        pick == base + 2 * Len(center) + 1
        neighbor_candidates == Filter(URBAN_NEIGHBORS, valid_hosts)
        targets == IF Len(neighbor_candidates) > 0
                   THEN sample(pick + 1, neighbor_candidates,
                               randint(pick, 1, Len(neighbor_candidates)))
                   ELSE <<>>
        loop == IF Len(neighbor_candidates) > 0 THEN pick + 2 ELSE pick
    IN  [flows |-> center \o [j \in 1..Len(targets) |->
                                FlowStart(L_B, targets[j], loop + 2 * (j - 1))],
         next |-> loop + 2 * Len(targets)]

\* lines 331-356 read without clock and status: the flows of scenario C
SuburbFlows(valid_hosts, base) ==
    LET suburb_hosts == Filter(SUBURB_NODES, valid_hosts)
        targets == IF Len(suburb_hosts) > 0
                   THEN sample(base + 1, suburb_hosts,
                               randint(base, 1, SuburbPick(Len(suburb_hosts))))
                   ELSE <<>>
        loop == IF Len(suburb_hosts) > 0 THEN base + 2 ELSE base
    IN  [flows |-> [j \in 1..Len(targets) |->
                      FlowStart(L_C, targets[j], loop + 2 * (j - 1))],
         next |-> loop + 2 * Len(targets)]

\* lines 201-363 read without clock and status: the flows of the first cycles cycles
\* of "while True", the generator standing at draw number base when they begin
RECURSIVE ScenarioFlows(_, _, _)
ScenarioFlows(valid_hosts, base, cycles) ==
    IF cycles = 0
    THEN <<>>
    ELSE LET A == HighwayFlows(valid_hosts, base)
             B == UrbanFlows(valid_hosts, A.next)
             C == SuburbFlows(valid_hosts, B.next)
         IN  A.flows \o B.flows \o C.flows
             \o ScenarioFlows(valid_hosts, C.next, cycles - 1)

\* lines 176-177: print, time.sleep(3.0)
TgEnter ==
    /\ tg.pc = "entry"
    /\ TgSleep([tg EXCEPT !.pc = "validate"], Sec(3))
    /\ UNCHANGED flowVars

\* lines 179-181: if net is None: return
TgNoNet ==
    /\ tg.pc = "validate"
    /\ tg.net.none
    /\ TgLocal([tg EXCEPT !.pc = "returned"])

\* lines 183-198: the hosts are validated, running is set, the clock is read
TgValidate ==
    /\ tg.pc = "validate"
    /\ ~tg.net.none
    /\ StatusLockFree
    /\ TgStep([tg EXCEPT !.pc = "cycle",
                         !.valid_hosts = Range(HostNames) \cap tg.net.hosts,
                         !.start_time = Wall, !.cycle = 0],
              [traffic_status EXCEPT !.running = TRUE], heap)
    /\ UNCHANGED <<mono, status_lock, last_write, flowVars>>

\* lines 201-209: a cycle begins, and ends the loop when the limit is exceeded
TgCycleBreak ==
    /\ tg.pc = "cycle"
    /\ tg.cycle < MaxCycles + 1
    /\ StatusLockFree
    /\ LimitExceeded
    /\ TgStep(LeftLoop([tg EXCEPT !.pc = "finally", !.cycle = tg.cycle + 1]),
              [traffic_status EXCEPT !.cycle_count = tg.cycle + 1], heap)
    /\ UNCHANGED <<mono, status_lock, last_write, flowVars>>

\* a cycle begins without the test of lines 206-209
TgCycleNoTest ==
    /\ tg.pc = "cycle"
    /\ tg.cycle < MaxCycles
    /\ StatusLockFree
    /\ LET roots == Roots(traffic_status, tg, m)
           a == Alloc(roots)
       IN  TgStep([tg EXCEPT !.pc = "A_loop", !.cycle = tg.cycle + 1, !.active = a, !.i = 1],
                  [traffic_status EXCEPT !.cycle_count = tg.cycle + 1],
                  [heap EXCEPT ![a] = <<>>])
    /\ UNCHANGED <<mono, status_lock, last_write, flowVars>>

\* lines 201-215: a cycle begins with scenario A: active = []
TgCycle ==
    /\ tg.pc = "cycle"
    /\ tg.cycle < MaxCycles
    /\ StatusLockFree
    /\ ~LimitExceeded
    /\ LET roots == Roots(traffic_status, tg, m)
           a == Alloc(roots)
       IN  TgStep([tg EXCEPT !.pc = "A_loop", !.cycle = tg.cycle + 1, !.active = a, !.i = 1],
                  [traffic_status EXCEPT !.cycle_count = tg.cycle + 1],
                  [heap EXCEPT ![a] = <<>>])
    /\ UNCHANGED <<mono, status_lock, last_write, flowVars>>

\* lines 217-231: one turn of "for node_name in HW_NODES", up to the call of
\* update_status; the loop ends after the last node or when the limit is exceeded,
\* and then "A-Highway-done" is published (lines 243-244)
TgHighway(P) ==
    /\ tg.pc = "A_loop"
    /\ IF tg.i > Len(HW_NODES) \/ LimitExceeded
       THEN TgLocal(Calling([tg EXCEPT !.i = 0], L_A_done, 0, "A_settle"))
       ELSE IF HW_NODES[tg.i] \notin tg.valid_hosts
       THEN TgLocal([tg EXCEPT !.i = tg.i + 1])
       ELSE \E dur \in Uniform(P, rng + 1, HW_DUR_MIN, HW_DUR_MAX),
               gap \in Uniform(P, rng + 2, HW_GAP_MIN, HW_GAP_MAX) :
               /\ TgDrawStep(Calling([tg EXCEPT !.bw = rng, !.dur = rng + 1, !.gap = gap,
                                                !.duration_sec = dur],
                                     L_A, tg.active, "A_flow"),
                             traffic_status,
                             [heap EXCEPT ![tg.active] = Append(@, HW_NODES[tg.i])], 3)
               /\ UNCHANGED <<mono, status_lock, last_write, flowVars>>

\* lines 233-238: start_iperf_flow(host, bw, dur, "_hw") is called
TgHighwayFlow ==
    /\ tg.pc = "A_flow"
    /\ start_iperf_flow(tg, HW_NODES[tg.i], "A_cmd", 0)
    /\ UNCHANGED mono

\* the return of start_iperf_flow in scenario A without the sleep of line 241
TgHighwayNoGap ==
    /\ tg.pc = "A_cmd"
    /\ host_cmd_returns
    /\ TgStep([tg EXCEPT !.pc = "A_loop", !.i = tg.i + 1, !.gap = 0, !.cmd_node = "",
                         !.bw = 0, !.dur = 0, !.duration_sec = 0],
              traffic_status, heap)
    /\ UNCHANGED <<mono, status_lock, last_write>>

\* lines 238-241: start_iperf_flow returns, time.sleep(gap)
TgHighwayGap ==
    /\ tg.pc = "A_cmd"
    /\ host_cmd_returns
    /\ TgSleep([tg EXCEPT !.pc = "A_loop", !.i = tg.i + 1, !.gap = 0, !.cmd_node = "",
                         !.bw = 0, !.dur = 0, !.duration_sec = 0],
               tg.gap)

\* phase A without its settle sleep
TgHighwayNoSettle ==
    /\ tg.pc = "A_settle"
    /\ TgLocal(PhaseOver([tg EXCEPT !.pc = "B_check", !.active = 0]))

\* line 245: time.sleep(2.0)
TgHighwaySettle ==
    /\ tg.pc = "A_settle"
    /\ TgSleep(PhaseOver([tg EXCEPT !.pc = "B_check", !.active = 0]), Sec(2))
    /\ UNCHANGED flowVars

\* lines 250-252: the limit is checked before scenario B
TgUrbanBreak ==
    /\ tg.pc = "B_check"
    /\ LimitExceeded
    /\ TgLocal(LeftLoop([tg EXCEPT !.pc = "finally"]))

\* lines 260-271: active = [], and the center host joins it; without a center host
\* the delay of lines 281-282 follows at once
TgUrban(P) ==
    /\ tg.pc = "B_check"
    /\ ~LimitExceeded
    /\ LET roots == Roots(traffic_status, tg, m)
           a == Alloc(roots)
       IN  IF URBAN_CENTER \in tg.valid_hosts
           THEN /\ \E c_dur \in Uniform(P, rng + 1, URB_CENTER_DUR_MIN, URB_CENTER_DUR_MAX) :
                      TgDrawStep(Calling([tg EXCEPT !.active = a, !.bw = rng,
                                                    !.dur = rng + 1,
                                                    !.duration_sec = c_dur,
                                                    !.max_dur = Max(0, c_dur)],
                                         L_B, a, "B_center_flow"),
                                 traffic_status, [heap EXCEPT ![a] = <<URBAN_CENTER>>], 2)
                /\ UNCHANGED mono
           ELSE /\ \E delay \in Uniform(P, rng, URB_DIFFUSE_DELAY_MIN, URB_DIFFUSE_DELAY_MAX) :
                      /\ TgDrawStep([tg EXCEPT !.pc = "B_pick", !.active = a, !.max_dur = 0],
                                    traffic_status, [heap EXCEPT ![a] = <<>>], 1)
                      /\ sleep(delay)
    /\ UNCHANGED <<status_lock, last_write, flowVars>>

\* lines 273-278: start_iperf_flow(center_host, c_bw, c_dur, "_urb_c") is called
TgUrbanCenterFlow ==
    /\ tg.pc = "B_center_flow"
    /\ start_iperf_flow(tg, URBAN_CENTER, "B_center_cmd", 0)
    /\ UNCHANGED mono

\* lines 278-282: start_iperf_flow returns, time.sleep(delay)
TgUrbanDelay(P) ==
    /\ tg.pc = "B_center_cmd"
    /\ host_cmd_returns
    /\ \E delay \in Uniform(P, rng, URB_DIFFUSE_DELAY_MIN, URB_DIFFUSE_DELAY_MAX) :
          /\ TgDrawStep([tg EXCEPT !.pc = "B_pick", !.cmd_node = "", !.bw = 0,
                                   !.dur = 0, !.duration_sec = 0],
                        traffic_status, heap, 1)
          /\ sleep(delay)
    /\ UNCHANGED <<status_lock, last_write>>

\* lines 285-289: the neighbors that take part are drawn
TgUrbanPick(P) ==
    /\ tg.pc = "B_pick"
    /\ LET neighbor_candidates == Filter(URBAN_NEIGHBORS, tg.valid_hosts)
       IN  IF Len(neighbor_candidates) > 0
           THEN \E k \in RandInt(P, rng, 1, Len(neighbor_candidates)) :
                \E targets \in Sample(P, rng + 1, neighbor_candidates, k) :
                   /\ TgDrawStep([tg EXCEPT !.pc = "B_loop", !.targets = targets, !.i = 1],
                                 traffic_status, heap, 2)
                   /\ UNCHANGED <<mono, status_lock, last_write, flowVars>>
           ELSE TgLocal([tg EXCEPT !.pc = "B_wait"])

\* lines 291-301: one turn of "for name in targets", up to the call of update_status;
\* after the last one, the wait of lines 311-312
TgUrbanNeighbor(P) ==
    /\ tg.pc = "B_loop"
    /\ IF tg.i > Len(tg.targets)
       THEN TgLocal([tg EXCEPT !.pc = "B_wait", !.i = 0, !.targets = <<>>])
       ELSE \E d \in Uniform(P, rng + 1, URB_NEI_DUR_MIN, URB_NEI_DUR_MAX) :
               /\ TgDrawStep(Calling([tg EXCEPT !.bw = rng, !.dur = rng + 1,
                                                !.duration_sec = d,
                                                !.max_dur = Max(tg.max_dur, d)],
                                     L_B, tg.active, "B_nei_flow"),
                             traffic_status,
                             [heap EXCEPT ![tg.active] = Append(@, tg.targets[tg.i])], 2)
               /\ UNCHANGED <<mono, status_lock, last_write, flowVars>>

\* lines 303-308: start_iperf_flow(host, b, d, "_urb_n") is called
TgUrbanNeighborFlow ==
    /\ tg.pc = "B_nei_flow"
    /\ start_iperf_flow(tg, tg.targets[tg.i], "B_nei_cmd", 0)
    /\ UNCHANGED mono

\* line 308: start_iperf_flow returns, and the loop over targets goes on
TgUrbanNeighborNext ==
    /\ tg.pc = "B_nei_cmd"
    /\ host_cmd_returns
    /\ TgStep([tg EXCEPT !.pc = "B_loop", !.i = tg.i + 1, !.cmd_node = "", !.bw = 0,
                         !.dur = 0, !.duration_sec = 0],
              traffic_status, heap)
    /\ UNCHANGED <<mono, status_lock, last_write>>

\* the wait of scenario B without its second of grace: time.sleep(max_dur)
TgUrbanWaitNoGrace ==
    /\ tg.pc = "B_wait"
    /\ IF tg.max_dur > 0
       THEN TgSleep([tg EXCEPT !.pc = "B_done", !.max_dur = 0], tg.max_dur)
       ELSE TgStep([tg EXCEPT !.pc = "B_done"], traffic_status, heap)
            /\ UNCHANGED <<mono, status_lock, last_write>>
    /\ UNCHANGED flowVars

\* lines 311-312: if max_dur > 0: time.sleep(max_dur + 1.0)
TgUrbanWait ==
    /\ tg.pc = "B_wait"
    /\ IF tg.max_dur > 0
       THEN TgSleep([tg EXCEPT !.pc = "B_done", !.max_dur = 0], tg.max_dur + Sec(1))
       ELSE TgStep([tg EXCEPT !.pc = "B_done"], traffic_status, heap)
            /\ UNCHANGED <<mono, status_lock, last_write>>
    /\ UNCHANGED flowVars

\* lines 314-315: update_status("B-Urban-done", [])
TgUrbanDone ==
    /\ tg.pc = "B_done"
    /\ TgLocal(Calling(tg, L_B_done, 0, "B_settle"))

\* line 316: time.sleep(2.0)
TgUrbanSettle ==
    /\ tg.pc = "B_settle"
    /\ TgSleep(PhaseOver([tg EXCEPT !.pc = "C_check", !.active = 0]), Sec(2))
    /\ UNCHANGED flowVars

\* lines 321-323: the limit is checked before scenario C
TgSuburbBreak ==
    /\ tg.pc = "C_check"
    /\ LimitExceeded
    /\ TgLocal(LeftLoop([tg EXCEPT !.pc = "finally"]))

\* lines 331-337: the suburb targets are drawn, active = list(targets)
TgSuburb(P) ==
    /\ tg.pc = "C_check"
    /\ ~LimitExceeded
    /\ LET suburb_hosts == Filter(SUBURB_NODES, tg.valid_hosts)
           roots == Roots(traffic_status, tg, m)
           a == Alloc(roots)
       IN  IF Len(suburb_hosts) > 0
           THEN \E k \in RandInt(P, rng, 1, SuburbPick(Len(suburb_hosts))) :
                \E targets \in Sample(P, rng + 1, suburb_hosts, k) :
                   TgDrawStep(Calling([tg EXCEPT !.targets = targets, !.active = a,
                                                 !.i = 1, !.max_dur_sub = 0],
                                      L_C, a, "C_loop"),
                              traffic_status, [heap EXCEPT ![a] = targets], 2)
           ELSE TgStep([tg EXCEPT !.pc = "C_done"], traffic_status, heap)
    /\ UNCHANGED <<mono, status_lock, last_write, flowVars>>

\* lines 342-356: one turn of "for name in targets", up to the call of
\* start_iperf_flow(host, bw, dur, "_sub"); after the last one, the wait of lines
\* 358-359
TgSuburbFlow(P) ==
    /\ tg.pc = "C_loop"
    /\ IF tg.i > Len(tg.targets)
       THEN /\ IF tg.max_dur_sub > 0
               THEN /\ TgStep([tg EXCEPT !.pc = "C_done", !.i = 0, !.targets = <<>>,
                                         !.max_dur_sub = 0],
                              traffic_status, heap)
                    /\ sleep(tg.max_dur_sub + Sec(1))
               ELSE /\ TgStep([tg EXCEPT !.pc = "C_done", !.i = 0, !.targets = <<>>],
                              traffic_status, heap)
                    /\ UNCHANGED mono
            /\ UNCHANGED <<status_lock, last_write, flowVars>>
       ELSE /\ \E dur \in Uniform(P, rng + 1, SUB_DUR_MIN, SUB_DUR_MAX) :
                  start_iperf_flow([tg EXCEPT !.bw = rng, !.dur = rng + 1,
                                              !.duration_sec = dur,
                                              !.max_dur_sub = Max(tg.max_dur_sub, dur)],
                                   tg.targets[tg.i], "C_cmd", 2)
            /\ UNCHANGED mono

\* line 356: start_iperf_flow returns, and the loop over targets goes on
TgSuburbNext ==
    /\ tg.pc = "C_cmd"
    /\ host_cmd_returns
    /\ TgStep([tg EXCEPT !.pc = "C_loop", !.i = tg.i + 1, !.cmd_node = "", !.bw = 0,
                         !.dur = 0, !.duration_sec = 0],
              traffic_status, heap)
    /\ UNCHANGED <<mono, status_lock, last_write>>

\* lines 361-362: update_status("C-Suburb-done", [])
TgSuburbDone ==
    /\ tg.pc = "C_done"
    /\ TgLocal(Calling(tg, L_C_done, 0, "C_settle"))

\* line 363: time.sleep(3.0), and the loop goes round
TgSuburbSettle ==
    /\ tg.pc = "C_settle"
    /\ TgSleep(PhaseOver([tg EXCEPT !.pc = "cycle", !.active = 0]), Sec(3))
    /\ UNCHANGED flowVars

\* update_status, lines 54-55: the lock is taken and the label is written
UpdateStatusScenario ==
    /\ tg.pc = "update_status"
    /\ StatusLockFree
    /\ status_lock' = "tg"
    /\ last_write' = <<tg.upd_scenario, CopyOfNodes(heap, tg.upd_nodes)>>
    /\ TgStep([tg EXCEPT !.pc = "update_status_nodes"],
              [traffic_status EXCEPT !.current_scenario = tg.upd_scenario], heap)
    /\ UNCHANGED <<mono, flowVars>>

\* update_status, line 56: the list is written and the lock is released
UpdateStatusNodes ==
    /\ tg.pc = "update_status_nodes"
    /\ status_lock = "tg"
    /\ status_lock' = "free"
    /\ LET a == Alloc(Roots(traffic_status, tg, m))
           st == StoreNodes(heap, a, tg.upd_nodes)
       IN  TgStep([tg EXCEPT !.pc = tg.upd_ret, !.upd_scenario = None, !.upd_nodes = 0,
                             !.upd_ret = ""],
                  [traffic_status EXCEPT !.active_nodes = st.ref], st.heap)
    /\ UNCHANGED <<mono, last_write, flowVars>>

\* the pcs of the try block (lines 200-363) at which a statement may raise
TryPcs ==
    {"cycle", "A_loop", "A_flow", "A_settle", "B_check", "B_center_flow", "B_pick",
     "B_loop", "B_nei_flow", "B_wait", "B_done", "B_settle", "C_check", "C_loop",
     "C_done", "C_settle"}

\* lines 365-367: a statement of the loop raises, and the exception is caught;
\* tg.raised keeps that it happened
TgRaise ==
    /\ tg.pc \in TryPcs
    /\ TgLocal(LeftLoop([tg EXCEPT !.pc = "finally", !.raised = TRUE]))

\* lines 368-371: finally: the lock is taken, running and the label are written
TgFinallyScenario ==
    /\ tg.pc = "finally"
    /\ StatusLockFree
    /\ status_lock' = "tg"
    /\ last_write' = <<L_stopped, <<>>>>
    /\ TgStep([tg EXCEPT !.pc = "finally_nodes"],
              [traffic_status EXCEPT !.running = FALSE, !.current_scenario = L_stopped],
              heap)
    /\ UNCHANGED <<mono, flowVars>>

\* lines 372-373: the list is written, the lock is released, the function returns
TgFinallyNodes ==
    /\ tg.pc = "finally_nodes"
    /\ status_lock = "tg"
    /\ status_lock' = "free"
    /\ LET a == Alloc(Roots(traffic_status, tg, m))
       IN  TgStep([tg EXCEPT !.pc = "returned"],
                  [traffic_status EXCEPT !.active_nodes = a], [heap EXCEPT ![a] = <<>>])
    /\ UNCHANGED <<mono, last_write, flowVars>>

\* the steps of run_traffic_scenario after "if net is None" has let it pass, when no
\* statement raises
scheduler_goes_on(P) ==
    \/ TgEnter \/ TgValidate \/ TgCycleBreak \/ TgCycle
    \/ TgHighway(P) \/ TgHighwayFlow \/ TgHighwayGap \/ TgHighwaySettle
    \/ TgUrbanBreak \/ TgUrban(P) \/ TgUrbanCenterFlow \/ TgUrbanDelay(P) \/ TgUrbanPick(P)
    \/ TgUrbanNeighbor(P) \/ TgUrbanNeighborFlow \/ TgUrbanNeighborNext \/ TgUrbanWait
    \/ TgUrbanDone \/ TgUrbanSettle
    \/ TgSuburbBreak \/ TgSuburb(P) \/ TgSuburbFlow(P) \/ TgSuburbNext \/ TgSuburbDone
    \/ TgSuburbSettle
    \/ UpdateStatusScenario \/ UpdateStatusNodes
    \/ TgFinallyScenario \/ TgFinallyNodes

\* the steps of run_traffic_scenario after "if net is None" has let it pass
scheduler(P) == scheduler_goes_on(P) \/ TgRaise

run_traffic_scenario(P) == TgNoNet \/ scheduler(P)

-----------------------------------------------------------------------------
(* collect_data.py: find_uplink_interface *)

\* intf.link of an interface without a link
NoLink == <<>>
Intf(name, link) == [name |-> name, link |-> link]

\* find_uplink_interface looking at the near end of the link only
find_uplink_interface_near_end(switch_intfs, core_name) ==
    LET F[i \in 1..(Len(switch_intfs) + 1)] ==
            IF i > Len(switch_intfs) THEN "None"
            ELSE LET intf == switch_intfs[i]
                 IN  IF intf.link # NoLink /\ intf.link[1] = core_name
                     THEN intf.name
                     ELSE F[i + 1]
    IN  F[1]

\* the first interface of the list whose link has core_name at one of its ends
find_uplink_interface(switch_intfs, core_name) ==
    LET F[i \in 1..(Len(switch_intfs) + 1)] ==
            IF i > Len(switch_intfs) THEN "None"
            ELSE LET intf == switch_intfs[i]
                 IN  IF /\ intf.link # NoLink
                        /\ (intf.link[1] = core_name \/ intf.link[2] = core_name)
                     THEN intf.name
                     ELSE F[i + 1]
    IN  F[1]

\* hw_intf or urb_intf or sub_intf
UplinksFoundAny(hw_intf, urb_intf, sub_intf) ==
    \/ hw_intf \notin {"None", ""}
    \/ urb_intf \notin {"None", ""}
    \/ sub_intf \notin {"None", ""}

\* hw_intf and urb_intf and sub_intf (line 134): None and "" are false
UplinksFound(hw_intf, urb_intf, sub_intf) ==
    /\ hw_intf \notin {"None", ""}
    /\ urb_intf \notin {"None", ""}
    /\ sub_intf \notin {"None", ""}

-----------------------------------------------------------------------------
(* utils.py: the probes, as functions of what the node answers *)

\* a Python value with its type
PyFloat(v) == [type |-> "float", v |-> v]
PyNone == [type |-> "NoneType", v |-> 0]
PyTuple(a, b) == [type |-> "tuple", v |-> <<a, b>>]

\* no "time=... ms" in the output of ping
Lost == 0 - 1

\* ping_once returns the pair (rtt_ms, loss_flag); reply is the parsed RTT in
\* hundredths of a millisecond, or Lost
ping_once(reply) ==
    IF reply = Lost THEN PyTuple(PyNone, 1) ELSE PyTuple(PyFloat(reply), 0)

\* round(x, n) is defined on numbers; on anything else it raises TypeError
RoundRaises(x) == x.type # "float"

\* the answers of a node to ping: lost, or 1.23 ms
PingReplies == {Lost, 123}

-----------------------------------------------------------------------------
(* collect_data.py: main(), one action per step.  An action that reads a clock or  *)
(* a counter takes the values the environment may answer as the record P.          *)

\* the counters other than those of host 1 and of the highway uplink read 0 throughout
ProbedHost == 1
ProbedZone == "highway"

\* the position of the generator of the random module after a step of main() in which
\* main() draws a value
SamplerDrawsOne(n) == n + 1

\* the position of the generator of the random module after a step of main() that
\* began with it at n: after random.seed(42), main() and the probes of utils.py call
\* no function of the random module
SamplerDraws(n) == n

\* a step of main() that leaves c as its locals and status_lock with holder lock
MStepLock(c, lock) ==
    /\ m' = c
    /\ status_lock' = lock
    /\ rng' = SamplerDraws(rng)
    /\ heap' = Collect(heap, Roots(traffic_status, tg, c))
    /\ UNCHANGED <<woff, nadj, topo, shutdown, traffic_status, last_write, flowVars,
                   uplinkVars>>

\* a step of main() that leaves c as its locals
MStep(c) == MStepLock(c, status_lock)

\* the process ends: its threads and their locals are gone
Killed(g) ==
    IF g.pc = "unstarted" THEN g ELSE [TgInit EXCEPT !.pc = "killed", !.raised = g.raised]

\* the step of main() that ends the process, leaving c as the locals of main()
MExit(c) ==
    /\ m' = c
    /\ tg' = Killed(tg)
    /\ heap' = Collect(heap, Roots(traffic_status, Killed(tg), c))
    /\ node_locks' = {}
    /\ UNCHANGED <<woff, nadj, topo, shutdown, traffic_status, status_lock, last_write,
                   flow_started, rng, uplinkVars>>

\* lines 106-137: the network is built and started, time.sleep(2), the uplinks are
\* looked up; without all three the network is stopped and main() returns
MResolve ==
    /\ m.pc = "resolve"
    /\ mono' = mono + Sec(2)
    /\ LET hw_intf == find_uplink_interface(topo["s_hw"], CORE_SWITCH_NAME)
           urb_intf == find_uplink_interface(topo["s_urb"], CORE_SWITCH_NAME)
           sub_intf == find_uplink_interface(topo["s_sub"], CORE_SWITCH_NAME)
       IN  IF ~UplinksFound(hw_intf, urb_intf, sub_intf)
           THEN MExit([m EXCEPT !.pc = "aborted"])
           ELSE /\ MStep([m EXCEPT !.pc = "servers", !.hw_intf = hw_intf,
                                   !.urb_intf = urb_intf, !.sub_intf = sub_intf])
                /\ UNCHANGED tg
    /\ UNCHANGED samplerVars

\* lines 150-155: the iperf3 servers are started on mec, time.sleep(1)
MServers ==
    /\ m.pc = "servers"
    /\ mono' = mono + Sec(1)
    /\ MStep([m EXCEPT !.pc = "thread", !.servers = TRUE])
    /\ UNCHANGED <<tg, samplerVars>>

\* lines 157-204: the generator thread is started with args=(net, DURATION + 5.0),
\* every counter is read for the first time, the clocks are read, the file is opened
\* and its header is written
MStartUp(P) ==
    /\ m.pc = "thread"
    /\ tg' = [TgInit EXCEPT !.pc = "entry", !.net = Net(Range(HostNames)),
                            !.duration_limit = DURATION + Sec(5)]
    /\ \E tx \in P.tx, rx \in P.rx :
          prev_host_stats' = [i \in Hosts |-> IF i = ProbedHost THEN <<tx, rx>> ELSE <<0, 0>>]
    /\ \E qd \in P.qd :
          prev_host_qdrops' = [i \in Hosts |-> IF i = ProbedHost THEN qd ELSE 0]
    /\ \E sw_qd \in P.sw :
          prev_switch_qdrops' =
              [z \in Range(Zones) |-> IF z = ProbedZone THEN sw_qd ELSE 0]
    /\ MStep([m EXCEPT !.pc = "loop", !.start_time_wall = Wall, !.start_time_mono = mono,
                       !.last_loop_time = mono])
    /\ UNCHANGED <<mono, curr_sw_drops_delta, row, rows_written>>

\* line 206: while not shutdown
MLoopShutdown ==
    /\ m.pc = "loop"
    /\ shutdown
    /\ MStep([m EXCEPT !.pc = "cleanup"])
    /\ UNCHANGED <<mono, tg, samplerVars>>

\* dt with a fallback of one second
IntervalOfOneSecond(dt) == IF dt <= 0 THEN Sec(1) ELSE dt

\* dt of lines 214-216
IntervalOf(dt) == IF dt <= 0 THEN SAMPLE_INTERVAL ELSE dt

\* get_traffic_status without "with status_lock:"
ReaderUnlocked == TRUE

\* "with status_lock:" in get_traffic_status (line 48) can be entered
ReaderLock == status_lock = "free"

\* what main() keeps of a call of get_traffic_status (lines 219-223)
Snapshot(c) ==
    [c EXCEPT !.status = get_traffic_status,
              !.norm_scenario = normalize_scenario_name(get_traffic_status.current_scenario),
              !.active_nodes = get_traffic_status.active_nodes,
              !.snap_nodes = Deref(heap, get_traffic_status.active_nodes),
              !.snap_write = last_write]

\* lines 206-211: the clocks are read d units after the last reading, and the loop
\* ends because DURATION has elapsed on the system clock
MLoopBreak(P) ==
    /\ m.pc = "loop"
    /\ ~shutdown
    /\ \E d \in P.steps :
          LET loop_start == mono + d
              elapsed_wall == loop_start + woff - m.start_time_wall
          IN  /\ elapsed_wall >= DURATION
              /\ mono' = loop_start
              /\ MStep([m EXCEPT !.pc = "cleanup", !.loop_start = loop_start,
                                 !.elapsed_wall = elapsed_wall])
    /\ UNCHANGED <<tg, samplerVars>>

\* lines 206-219: a tick begins: the clocks are read d units after the last reading,
\* dt is set and get_traffic_status is called; m.ticks counts the ticks begun
MLoopTop(P) ==
    /\ m.pc = "loop"
    /\ ~shutdown
    /\ \E d \in P.steps :
          LET loop_start == mono + d
              elapsed_wall == loop_start + woff - m.start_time_wall
              dt == loop_start - m.last_loop_time
          IN  /\ ~(elapsed_wall >= DURATION)
              /\ mono' = loop_start
              /\ MStep([m EXCEPT !.pc = "get_traffic_status",
                                 !.loop_start = loop_start,
                                 !.elapsed_wall = elapsed_wall,
                                 !.dt_measured = dt, !.dt = IntervalOf(dt),
                                 !.ticks = m.ticks + 1])
    /\ UNCHANGED <<tg, samplerVars>>

\* get_traffic_status, line 48: "with status_lock:" is entered
MEnterStatusLock ==
    /\ m.pc = "get_traffic_status"
    /\ ReaderLock
    /\ MStepLock([m EXCEPT !.pc = "traffic_status_copy"],
                 IF status_lock = "free" THEN "main" ELSE status_lock)
    /\ UNCHANGED <<mono, tg, samplerVars>>

\* the reader leaves "with status_lock:" and keeps the lock
ReaderKeeps(lock) == lock

\* the reader leaves "with status_lock:" (line 49): the lock it holds is released
ReaderRelease(lock) == IF lock = "main" THEN "free" ELSE lock

\* lines 49 and 219-223: traffic_status.copy() is returned, the lock is released, and
\* main() keeps the traffic state of this tick
MGetTrafficStatus ==
    /\ m.pc = "traffic_status_copy"
    /\ MStepLock([Snapshot(m) EXCEPT !.pc = "switches"], ReaderRelease(status_lock))
    /\ UNCHANGED <<mono, tg, samplerVars>>

\* the drops since the previous reading without the test for a negative difference
DropDeltaSigned(prev, curr) == curr - prev

\* lines 236-238, 290-292: the drops since the previous reading, never negative
DropDelta(prev, curr) == IF curr - prev < 0 THEN 0 ELSE curr - prev

\* lines 228-244: the uplink queue of each zone is polled
MPollSwitches(P) ==
    /\ m.pc = "switches"
    /\ \E sw_total_drops \in P.sw :
          LET reading == [z \in Range(Zones) |->
                              IF z = ProbedZone THEN sw_total_drops ELSE 0]
          IN  /\ curr_sw_drops_delta' =
                     [z \in Range(Zones) |-> DropDelta(prev_switch_qdrops[z], reading[z])]
              /\ prev_switch_qdrops' = reading
              /\ row' = [NoRow EXCEPT !.sq_prev = prev_switch_qdrops[ProbedZone],
                                      !.sq_curr = sw_total_drops]
    /\ MStep([m EXCEPT !.pc = "hosts"])
    /\ UNCHANGED <<mono, tg, prev_host_stats, prev_host_qdrops, rows_written>>

\* the label of an endpoint without the membership test
IsActiveByLabel(host_name, active_nodes, norm_scenario) == norm_scenario # L_idle

\* lines 255-260: the label of an endpoint
IsActive(host_name, active_nodes, norm_scenario) ==
    host_name \in Range(active_nodes) /\ norm_scenario # L_idle

\* lines 273-287: bytes since the previous reading over dt, never negative; the
\* value is held in bit/s (1e-6 Mbps), integer part
RateMbps(prev, curr, dt) ==
    LET diff == IF curr - prev < 0 THEN 0 ELSE curr - prev
        rate == (diff * 8 * UnitsPerSecond) \div dt
    IN  IF rate < 0 THEN 0 ELSE rate

\* lines 249-263, first turn of "for node_id, host in hosts.items()": ping_once is
\* called, and main() is inside host.cmd (utils.py, line 112)
MHostProbe ==
    /\ m.pc = "hosts"
    /\ MStep([m EXCEPT !.pc = "probing", !.cmd_node = HostName(ProbedHost)])
    /\ UNCHANGED <<mono, tg, samplerVars>>

\* lines 249-318, first turn of "for node_id, host in hosts.items()": the endpoint is
\* labelled and probed, its rates and deltas are computed, the history is updated,
\* and the list for writer.writerow is built item by item: round(elapsed_wall, 3),
\* round(dt, 4), host_name, zone, round(rtt_ms, 1).  rtt_ms is the tuple ping_once
\* returned, so round raises TypeError: no row is written, rows_written stays 0, and
\* the exception leaves the loop, the with block and main().
MHostRow(P) ==
    /\ m.pc = "probing"
    /\ \E reply \in PingReplies, curr_tx \in P.tx, curr_rx \in P.rx, h_total_drops \in P.qd :
          LET node_id == ProbedHost
              zone == get_zone(node_id)
              host_name == HostName(node_id)
              active == IsActive(host_name, Deref(heap, m.active_nodes), m.norm_scenario)
              rtt_ms == ping_once(reply)
              prev_tx == prev_host_stats[node_id][1]
              prev_rx == prev_host_stats[node_id][2]
              prev_h_drop == prev_host_qdrops[node_id]
          IN  /\ RoundRaises(rtt_ms)
              /\ prev_host_stats' = [prev_host_stats EXCEPT ![node_id] = <<curr_tx, curr_rx>>]
              /\ prev_host_qdrops' = [prev_host_qdrops EXCEPT ![node_id] = h_total_drops]
              /\ row' = [row EXCEPT
                            !.assembled = TRUE,
                            !.timestamp = Round3(m.elapsed_wall),
                            !.dt = Round4(m.dt),
                            !.node_id = node_id,
                            !.zone = zone,
                            !.tx_mbps = RateMbps(prev_tx, curr_tx, m.dt),
                            !.rx_mbps = RateMbps(prev_rx, curr_rx, m.dt),
                            !.host_queue_drops = DropDelta(prev_h_drop, h_total_drops),
                            !.switch_queue_drops = curr_sw_drops_delta[zone],
                            !.scenario = IF active THEN m.norm_scenario ELSE L_idle,
                            !.is_active = IF active THEN 1 ELSE 0,
                            !.tx_prev = prev_tx, !.tx_curr = curr_tx,
                            !.rx_prev = prev_rx, !.rx_curr = curr_rx,
                            !.hq_prev = prev_h_drop, !.hq_curr = h_total_drops]
    /\ MExit([m EXCEPT !.pc = "raised", !.cmd_node = ""])
    /\ UNCHANGED <<mono, prev_switch_qdrops, curr_sw_drops_delta, rows_written>>

\* lines 330-335: the loop was left by break or by shutdown: the network is stopped
MCleanup ==
    /\ m.pc = "cleanup"
    /\ MExit([m EXCEPT !.pc = "done"])
    /\ UNCHANGED <<mono, samplerVars>>

\* the steps of main() under the environment P
main(P) ==
    \/ MResolve \/ MServers \/ MStartUp(P)
    \/ MLoopShutdown \/ MLoopBreak(P) \/ MLoopTop(P) \/ MEnterStatusLock
    \/ MGetTrafficStatus
    \/ MPollSwitches(P)
    \/ MHostProbe \/ MHostRow(P)
    \/ MCleanup

-----------------------------------------------------------------------------
(* The program: collect_data.main() with the generator thread it starts *)

\* intfList() of a zone switch of HybridV2XTopo as Mininet builds it: lo, the uplink
\* to s_core (addLink(sw, s_core)), an access link (addLink(host, switch))
WithUplink(sw) ==
    <<Intf("lo", NoLink), Intf(sw \o "-eth1", <<sw, "s_core">>),
      Intf(sw \o "-eth2", <<"h1", sw>>)>>
\* intfList() of a zone switch whose uplink did not come up
WithoutUplink(sw) ==
    <<Intf("lo", NoLink), Intf(sw \o "-eth1", <<"h1", sw>>)>>

ZoneSwitches == {"s_hw", "s_urb", "s_sub"}
Topologies == {t \in [ZoneSwitches -> {"with", "without"}] : TRUE}
TopoOf(t) == [sw \in ZoneSwitches |->
                 IF t[sw] = "with" THEN WithUplink(sw) ELSE WithoutUplink(sw)]

InitCommon ==
    /\ mono = 0
    /\ woff = 0
    /\ nadj = 0
    /\ shutdown = FALSE
    /\ traffic_status = TrafficStatusInit
    /\ status_lock = "free"
    /\ heap = [a \in Addr |-> <<>>]
    /\ last_write = <<None, <<>>>>
    /\ flow_started = FALSE
    /\ node_locks = {}
    /\ rng = 0
    /\ prev_host_stats = [i \in Hosts |-> <<0, 0>>]
    /\ prev_host_qdrops = [i \in Hosts |-> 0]
    /\ prev_switch_qdrops = [z \in Range(Zones) |-> 0]
    /\ curr_sw_drops_delta = [z \in Range(Zones) |-> 0]
    /\ row = NoRow
    /\ rows_written = 0

Init ==
    /\ InitCommon
    /\ \E t \in Topologies : topo = TopoOf(t)
    /\ tg = TgInit
    /\ m = MInit
    /\ intfs = <<>>
    /\ found = "pending"

\* the answers of the environment in Spec: the clock stands still between two sleeps,
\* every counter reads 0, the system clock may be set past the run's end, random draws
\* are narrow
Coarse == [steps |-> {0}, tx |-> {0}, rx |-> {0}, qd |-> {0}, sw |-> {0},
           clock |-> {DURATION + Sec(10)}, wide |-> FALSE]

Next ==
    \/ main(Coarse)
    \/ scheduler(Coarse)
    \/ signal_handler
    \/ AdjustSystemClock(Coarse)

Spec == Init /\ [][Next]_vars

\* the generator thread is scheduled again and again as long as it has a step to
\* take, every sleep and every command of it returning; nothing is assumed of
\* exceptions, of signals or of the system clock, and of main() only that its call
\* of get_traffic_status, once it is inside "with status_lock:", returns
SpecFair == Spec /\ WF_vars(scheduler_goes_on(Coarse)) /\ WF_vars(MGetTrafficStatus)

\* and a call of get_traffic_status that waits at "with status_lock:" enters when the
\* lock is free again and again: the generator thread sleeps between its critical
\* sections
SpecLocks == SpecFair /\ SF_vars(MEnterStatusLock)

-----------------------------------------------------------------------------
(* main() up to the end of its first tick, while the generator thread it has       *)
(* started has not yet been scheduled, under an environment that answers with      *)
(* several clock steps (nothing, 40 microseconds, half a second) and several       *)
(* counter readings (0 for a failed probe, and two values that rise or fall)       *)

Fine == [steps |-> {0, 1, Tenth(5)}, tx |-> {0, 1000}, rx |-> {0, 700},
         qd |-> {0, 100, 140}, sw |-> {0, 80, 100},
         clock |-> {0 - Sec(1), DURATION + Sec(10)}, wide |-> FALSE]

NextNum ==
    \/ main(Fine)
    \/ signal_handler
    \/ AdjustSystemClock(Fine)

SpecNum == Init /\ [][NextNum]_vars

-----------------------------------------------------------------------------
(* run_traffic_scenario(net, duration_limit) called on its own, as the target of   *)
(* a thread: net is None, or a network with some of the hosts                      *)

TGNets ==
    {NoNet,
     Net({"h3"}),
     Net({"h1", "h2", "h5", "h6", "h7", "h11", "h12"}),
     Net({"h5", "h6", "h11", "h12", "h13", "h14"})}
TGLimits == {NoLimit, Sec(10)}

\* random draws answer both ends of a range and every sample
Wide == [steps |-> {0}, tx |-> {0}, rx |-> {0}, qd |-> {0}, sw |-> {0},
         clock |-> {}, wide |-> TRUE]

InitTG ==
    /\ InitCommon
    /\ topo = TopoOf([sw \in ZoneSwitches |-> "with"])
    /\ \E net \in TGNets, limit \in TGLimits :
          tg = [TgInit EXCEPT !.pc = "entry", !.net = net, !.duration_limit = limit]
    /\ m = [MInit EXCEPT !.pc = "harness"]
    /\ intfs = <<>>
    /\ found = "pending"

NextTG == run_traffic_scenario(Wide)

SpecTG == InitTG /\ [][NextTG]_vars

-----------------------------------------------------------------------------
(* find_uplink_interface(switch_node, core_name) on the interface lists of up to   *)
(* MaxIntfs interfaces, each without a link, linked to the core at the far end,    *)
(* linked to the core at the near end, or linked to a host                         *)

IntfNames == <<"lo", "s_hw-eth1", "s_hw-eth2", "s_hw-eth3", "s_hw-eth4">>
Links == {NoLink, <<"s_hw", "s_core">>, <<"s_core", "s_hw">>, <<"h1", "s_hw">>}
IntfLists ==
    UNION {{[i \in 1..n |-> Intf(IntfNames[i], links[i])] : links \in [1..n -> Links]} :
           n \in 0..MaxIntfs}

InitUplink ==
    /\ InitCommon
    /\ topo = TopoOf([sw \in ZoneSwitches |-> "with"])
    /\ tg = TgInit
    /\ m = [MInit EXCEPT !.pc = "harness"]
    /\ intfs \in IntfLists
    /\ found = "pending"

\* the call find_uplink_interface(switch_node, CORE_SWITCH_NAME)
FindUplink ==
    /\ found = "pending"
    /\ found' = find_uplink_interface(intfs, CORE_SWITCH_NAME)
    /\ UNCHANGED <<mono, woff, nadj, topo, shutdown, traffic_status, status_lock, heap,
                   last_write, tg, flowVars, rng, m, samplerVars, intfs>>

NextUplink == FindUplink

SpecUplink == InitUplink /\ [][NextUplink]_vars

-----------------------------------------------------------------------------
(* Properties *)

\* main() holds the snapshot of this tick
SnapshotHeld == m.pc \in {"switches", "hosts", "probing", "raised"}

\* the traffic state is the terminal one
Stopped ==
    /\ traffic_status.current_scenario = L_stopped
    /\ Deref(heap, traffic_status.active_nodes) = <<>>
    /\ traffic_status.running = FALSE

\* the labels that are published with an empty active list
EmptyLabels == {None, L_A_done, L_B_done, L_C_done, L_stopped}

\* C1: a snapshot that main() holds is isolated from the shared state: whatever the
\* generator thread has written or appended since the snapshot was taken, the list the
\* snapshot refers to still has the content it had when the snapshot was taken, and
\* the snapshot's label is still the label of the write it was taken from.
C1_SnapshotIsolated ==
    SnapshotHeld =>
        /\ Deref(heap, m.status.active_nodes) = m.snap_nodes
        /\ Deref(heap, m.active_nodes) = m.snap_nodes
        /\ m.status.current_scenario = m.snap_write[1]

\* C1 witness: main() holds the snapshot ("A-Highway", [h1]) while the generator thread
\* has appended h2 to its own list and has published a later state.
C1_Witness ==
    /\ m.pc = "hosts"
    /\ m.status.current_scenario = L_A
    /\ m.snap_nodes = <<"h1">>
    /\ tg.active # 0
    /\ Deref(heap, tg.active) = <<"h1", "h2">>
    /\ Deref(heap, traffic_status.active_nodes) = <<"h1", "h2">>

\* C2: the pair (current_scenario, active_nodes) of a snapshot is the pair of one
\* single write: the pair the latest writer before the snapshot set out to write (the
\* initial value, the arguments of one update_status call, or the pair of the finally
\* block); so the active list is empty exactly under the initial, "-done" and
\* "stopped" labels.
C2_PairOfOneWrite ==
    SnapshotHeld =>
        /\ <<m.status.current_scenario, m.snap_nodes>> = m.snap_write
        /\ (m.snap_nodes = <<>>) <=> (m.status.current_scenario \in EmptyLabels)

\* C2 witness: a snapshot taken after several writes, of the pair ("B-Urban", [h6, h5]).
C2_Witness ==
    /\ m.pc = "hosts"
    /\ m.status.current_scenario = L_B
    /\ m.snap_nodes = <<"h6", "h5">>

\* C3 (as claimed): whenever run_traffic_scenario has returned, the traffic state is
\* {current_scenario: "stopped", active_nodes: [], running: False}.
C3_StoppedOnExit == tg.pc = "returned" => Stopped

\* C4: in the values main() computes for the record of an endpoint, is_active is 1
\* exactly when the endpoint's name is in the active list of this tick's snapshot and
\* the snapshot's label is one of a phase (normalized, it is not "idle"); then the
\* record's scenario is the phase, otherwise it is "idle" with is_active 0; a snapshot
\* of the initial state, of a "-done" state or of the "stopped" state gives idle.
C4_ActiveLabel ==
    row.assembled =>
        LET name == HostName(row.node_id)
            label == m.status.current_scenario
            phase == IF label \in {L_A, L_A_done} THEN L_A
                     ELSE IF label \in {L_B, L_B_done} THEN L_B
                     ELSE IF label \in {L_C, L_C_done} THEN L_C
                     ELSE L_idle
        IN  /\ row.is_active \in {0, 1}
            /\ (row.is_active = 1) <=> (name \in Range(m.snap_nodes) /\ phase # L_idle)
            /\ row.is_active = 1 => row.scenario = phase
            /\ row.is_active = 0 => row.scenario = L_idle
            /\ label \in EmptyLabels => row.is_active = 0

\* C4 witness: the record values of h1 computed from a snapshot in which h1 is active.
C4_Witness ==
    /\ row.assembled
    /\ row.is_active = 1
    /\ row.scenario = L_A
    /\ m.snap_nodes = <<"h1", "h2">>

\* C5 (as claimed): the dt of a record, round(dt, 4), is greater than 0.
C5_IntervalPositive == row.assembled => row.dt > 0

\* C7: the values main() computes for a record are never negative: both rates, the
\* host queue drop delta and the uplink queue drop delta; a rate or delta is 0 when
\* its counter reads less than at the previous reading, and a drop delta is the
\* current reading minus the previous one otherwise.
C7_NonNegative ==
    row.assembled =>
        /\ row.tx_mbps >= 0
        /\ row.rx_mbps >= 0
        /\ row.host_queue_drops >= 0
        /\ row.switch_queue_drops >= 0
        /\ row.tx_curr < row.tx_prev => row.tx_mbps = 0
        /\ row.rx_curr < row.rx_prev => row.rx_mbps = 0
        /\ row.hq_curr < row.hq_prev => row.host_queue_drops = 0
        /\ row.sq_curr < row.sq_prev => row.switch_queue_drops = 0
        /\ row.hq_curr >= row.hq_prev => row.host_queue_drops = row.hq_curr - row.hq_prev
        /\ row.sq_curr >= row.sq_prev => row.switch_queue_drops = row.sq_curr - row.sq_prev

\* C7 witness: a tick in which the tx counter and the host queue drop counter read
\* less than before (100 -> 0), and the uplink drop counter more (80 -> 100).
C7_Witness ==
    /\ row.assembled
    /\ row.tx_curr < row.tx_prev
    /\ row.hq_prev = 100 /\ row.hq_curr = 0
    /\ row.sq_prev = 80 /\ row.sq_curr = 100
    /\ row.switch_queue_drops = 20

\* C8 (as claimed): on a tick whose measured dt is not positive, tx_mbps and rx_mbps
\* are 0.
C8_ZeroRateWithoutInterval ==
    (row.assembled /\ m.dt_measured <= 0) => (row.tx_mbps = 0 /\ row.rx_mbps = 0)

\* C8 (amended): on a tick whose measured dt is not positive, dt is SAMPLE_INTERVAL
\* (0.5 s, written as 0.5), and tx_mbps and rx_mbps are the bytes gained since the
\* previous reading (0 when the counter fell) over SAMPLE_INTERVAL: they are 0 exactly
\* when the counter did not rise.
C8_RateOverSampleInterval ==
    (row.assembled /\ m.dt_measured <= 0) =>
        LET tx_diff == Max(0, row.tx_curr - row.tx_prev)
            rx_diff == Max(0, row.rx_curr - row.rx_prev)
        IN  /\ m.dt = SAMPLE_INTERVAL
            /\ row.dt = 5000
            /\ row.tx_mbps * SAMPLE_INTERVAL = tx_diff * 8 * UnitsPerSecond
            /\ row.rx_mbps * SAMPLE_INTERVAL = rx_diff * 8 * UnitsPerSecond
            /\ (row.tx_mbps = 0) <=> (row.tx_curr <= row.tx_prev)
            /\ (row.rx_mbps = 0) <=> (row.rx_curr <= row.rx_prev)

\* C8 witness: the clock has not moved since the previous reading, 1000 bytes were
\* sent, and tx_mbps is 0.016 Mbps.
C8_Witness ==
    /\ row.assembled
    /\ m.dt_measured = 0
    /\ row.tx_prev = 0 /\ row.tx_curr = 1000
    /\ row.tx_mbps = 16000

\* the positions of the interfaces of the list whose link has the core at an end
CoreLinked(l) ==
    {i \in 1..Len(l) : l[i].link # NoLink /\ CORE_SWITCH_NAME \in Range(l[i].link)}

\* C9: find_uplink_interface returns the name of the first interface of the list
\* whose link has the core switch at one of its two ends, and None exactly when no
\* interface of the list has such a link; interfaces without a link are skipped.
C9_FirstCoreLink ==
    found # "pending" =>
        /\ (found = "None") <=> (CoreLinked(intfs) = {})
        /\ CoreLinked(intfs) # {} =>
              \E i \in CoreLinked(intfs) :
                 /\ found = intfs[i].name
                 /\ \A j \in CoreLinked(intfs) : i <= j

\* C9 witness: an interface without a link, then two linked to the core (the core at
\* the far end, the core at the near end): the first of the two is returned.
C9_Witness ==
    /\ found = "s_hw-eth1"
    /\ Len(intfs) = 3
    /\ intfs[1].link = NoLink
    /\ intfs[2].link = <<"s_hw", "s_core">>
    /\ intfs[3].link = <<"s_core", "s_hw">>

\* the switch has an interface linked to the core
HasUplink(sw) == CoreLinked(topo[sw]) # {}

\* C10: if a zone switch has no uplink to the core, nothing is started: main() does
\* not go beyond the lookup, the iperf3 servers and the generator thread are never
\* started, no flow is started and no record is computed or written; and whenever
\* main() is in a tick, every zone switch has an uplink and main() holds its name.
C10_AbortBeforeStart ==
    /\ (\E sw \in ZoneSwitches : ~HasUplink(sw)) =>
          /\ m.pc \in {"resolve", "aborted"}
          /\ ~m.servers
          /\ tg.pc = "unstarted"
          /\ ~flow_started
          /\ ~row.assembled
          /\ rows_written = 0
    /\ (SnapshotHeld \/ row.assembled) =>
          /\ \A sw \in ZoneSwitches : HasUplink(sw)
          /\ m.hw_intf = "s_hw-eth1"
          /\ m.urb_intf = "s_urb-eth1"
          /\ m.sub_intf = "s_sub-eth1"

\* C10 witness: the run has aborted because the suburb switch has no uplink, the
\* highway switch having one.
C10_Witness ==
    /\ m.pc = "aborted"
    /\ HasUplink("s_hw")
    /\ ~HasUplink("s_sub")

\* no tick is in flight: main() is between two ticks or has left the loop
TickBoundary == m.pc \in {"loop", "cleanup", "done", "raised"}

\* C11 (as claimed): whenever no tick is in flight, the number of records written is
\* the number of ticks begun times N_HOSTS: every tick has written one record per
\* endpoint.
C11_RecordsPerTick == TickBoundary => rows_written = m.ticks * N_HOSTS

\* C12 (as claimed): a run that neither a signal nor a clock adjustment has touched
\* ends after exactly DURATION / SAMPLE_INTERVAL ticks, with that many times N_HOSTS
\* records written.
C12_TicksOfARun ==
    (m.pc \in {"done", "raised"} /\ ~shutdown /\ nadj = 0) =>
        /\ m.ticks = DURATION \div SAMPLE_INTERVAL
        /\ rows_written = (DURATION \div SAMPLE_INTERVAL) * N_HOSTS

\* the scenario label under which the call of start_iperf_flow at position pc is made
PhaseOfCmd(pc) ==
    IF pc = "A_cmd" THEN L_A ELSE IF pc = "C_cmd" THEN L_C ELSE L_B

\* a step in which the generator thread makes a flow start
FlowStarts == tg.cmd_node = "" /\ tg'.cmd_node # ""

\* the flow starts that random.seed(42) and the valid hosts fix for the cycles of a run
SeededFlows == ScenarioFlows(tg.valid_hosts, 0, MaxCycles)

C14_FlowCommandsExclusive ==
    /\ node_locks = (IF tg.cmd_node = "" THEN {} ELSE {tg.cmd_node})
    /\ tg.cmd_node # "" <=> tg.pc \in {"A_cmd", "B_center_cmd", "B_nei_cmd", "C_cmd"}

\* C14 witness: the second flow-start command of phase A is in progress on h2, under
\* the lock of h2, the lock of h1 having been released when the first returned.
C14_Witness ==
    /\ tg.pc = "A_cmd"
    /\ tg.cmd_node = "h2"
    /\ node_locks = {"h2"}
    /\ flow_started

\* C15 (as claimed): at no time are a node.cmd() call of the generator thread and a
\* node.cmd() call of main() in progress on the same node.
C15_NodeCommandsExclusive == ~(tg.cmd_node # "" /\ m.cmd_node = tg.cmd_node)

\* C16 (as claimed): once a statement of a scenario phase has raised in the generator
\* thread, main() still ends by its budget or by shutdown only, and every tick it has
\* begun and ended has written one record per endpoint.
C16_SamplerSurvives ==
    tg.raised =>
        /\ m.pc # "raised"
        /\ TickBoundary => rows_written = m.ticks * N_HOSTS

\* the positions at which run_traffic_scenario tests whether to go on: the top of a
\* cycle and the top of phases B and C
PhaseTops == {"cycle", "B_check", "C_check"}

\* C17 (as claimed): once the shutdown flag is set, the generator thread leaves its
\* loop at the top of its next phase iteration: from there it goes to the "stopped"
\* terminal state and starts nothing more.
C17_CancelledByShutdown ==
    [][(shutdown /\ tg.pc \in PhaseTops /\ tg' # tg) => tg'.pc \in {"finally", "killed"}]_vars

\* C18 (as claimed): a tick that was in flight when the shutdown flag was set has
\* written one record per endpoint when it has ended.
C18_TickNotAborted ==
    (shutdown /\ m.ticks > 0 /\ TickBoundary) => rows_written = m.ticks * N_HOSTS

\* the generator thread is in its loop
InLoop ==
    tg.pc \notin {"unstarted", "entry", "validate", "finally", "finally_nodes", "returned",
                 "killed"}

\* the number of cycles whose phase C is done, while the generator thread is in its loop
CyclesDone == IF tg.pc \in {"cycle", "C_settle"} THEN tg.cycle ELSE tg.cycle - 1

\* C19 (as claimed): while the generator thread is in its loop, the published
\* cycle_count is the number of cycles whose phase C is done; it is 0 during the
\* phases of the first cycle.
C19_CycleCountCompleted ==
    (InLoop /\ tg.cycle > 0 /\ status_lock = "free") =>
        traffic_status.cycle_count = CyclesDone

\* the place of a label in the order of a cycle
Rank(label) ==
    CASE label = L_A -> 1 [] label = L_A_done -> 2 [] label = L_B -> 3
      [] label = L_B_done -> 4 [] label = L_C -> 5 [] label = L_C_done -> 6
      [] OTHER -> 0

DoneLabels == {L_A_done, L_B_done, L_C_done}

\* label b may be published after label a: the same phase label again, the "-done"
\* label of the same phase, or, after a "-done" label (or at the start), the next
\* phase or its "-done" label; "stopped" ends every sequence
MayFollow(a, b) ==
    \/ b = L_stopped /\ a # L_stopped
    \/ /\ a \in {L_A, L_B, L_C}
       /\ Rank(b) \in {Rank(a), Rank(a) + 1}
    \/ /\ a \in DoneLabels \cup {None}
       /\ Rank(b) \in {(Rank(a) % 6) + 1, (Rank(a) % 6) + 2}

\* the settle sleep after the "-done" label of a phase, and the position after it
SettleOf ==
    [A_settle |-> [t |-> Sec(2), pc |-> "B_check"],
     B_settle |-> [t |-> Sec(2), pc |-> "C_check"],
     C_settle |-> [t |-> Sec(3), pc |-> "cycle"]]

\* C20: the generator thread publishes its labels in the order A-Highway,
\* A-Highway-done, B-Urban, B-Urban-done, C-Suburb, C-Suburb-done of a cycle (a
\* phase label may repeat, a phase without hosts publishes its "-done" label only,
\* "stopped" may cut the cycle short); a "-done" label is published with an empty
\* active list, its publication returns to the settle position of its phase, and
\* that position is left only by the fixed settle sleep (2 s, 2 s, 3 s) or by
\* leaving the loop.
C20_PhaseOrder ==
    [][/\ last_write' # last_write =>
              /\ MayFollow(last_write[1], last_write'[1])
              /\ last_write'[1] \in DoneLabels => last_write'[2] = <<>>
       /\ (tg.pc = "update_status_nodes" /\ tg' # tg /\ tg'.pc # "killed") =>
              /\ tg.upd_scenario \in DoneLabels <=> tg'.pc \in DOMAIN SettleOf
              /\ tg.upd_scenario \in DoneLabels =>
                     Deref(heap', traffic_status'.active_nodes) = <<>>
       /\ (tg.pc \in DOMAIN SettleOf /\ tg' # tg) =>
              \/ tg'.pc \in {"finally", "killed"}
              \/ /\ tg'.pc = SettleOf[tg.pc].pc
                 /\ mono' = mono + SettleOf[tg.pc].t
      ]_vars

\* C20 witness: the whole order of a cycle has been published, and the generator
\* thread is about to sleep the settle period of phase C.
C20_Witness ==
    /\ tg.pc = "C_settle"
    /\ last_write = <<L_C_done, <<>>>>
    /\ traffic_status.current_scenario = L_C_done

\* the active list that a reader of the shared status finds
PublishedNodes == Deref(heap, traffic_status.active_nodes)

\* a step of the generator thread that is not the end of the process
TgGoesOn == tg' # tg /\ tg'.pc # "killed"

\* the first k endpoints of the highway list
HighwayPrefix(k) == SubSeq(HW_NODES, 1, k)

\* C21: while "A-Highway" is published the active set is a non-empty prefix of the
\* highway list (h1, h2, h3, h4); each publication of scenario A appends exactly one
\* endpoint, the next of the list, and is followed by the flow start on that endpoint
\* (unless the thread ends); the k-th flow start of the phase is on the k-th endpoint
\* with ("A-Highway", first k endpoints) published; and the thread goes on from a
\* flow start only after the gap drawn from [HW_GAP_MIN, HW_GAP_MAX].
C21_HighwayChain ==
    /\ []((status_lock # "tg" /\ traffic_status.current_scenario = L_A)
            => /\ PublishedNodes # <<>>
               /\ PublishedNodes = HighwayPrefix(Len(PublishedNodes)))
    /\ [][/\ (tg.pc = "update_status_nodes" /\ tg.upd_scenario = L_A /\ TgGoesOn)
               => /\ tg'.pc = "A_flow"
                  /\ Deref(heap', traffic_status'.active_nodes)
                       = Append(PublishedNodes, HW_NODES[tg.i])
                  /\ Deref(heap', traffic_status'.active_nodes) = HighwayPrefix(tg.i)
          /\ (tg.pc = "A_flow" /\ tg' # tg) => tg'.pc \in {"A_cmd", "finally", "killed"}
          /\ (FlowStarts /\ tg'.pc = "A_cmd")
               => /\ status_lock # "tg"
                  /\ traffic_status.current_scenario = L_A
                  /\ PublishedNodes = HighwayPrefix(tg.i)
                  /\ tg'.cmd_node = HW_NODES[tg.i]
          /\ (tg.pc = "A_cmd" /\ TgGoesOn)
               => /\ tg'.pc = "A_loop"
                  /\ tg'.i = tg.i + 1
                  /\ mono' - mono >= HW_GAP_MIN
                  /\ mono' - mono <= HW_GAP_MAX]_vars

\* the third flow start of scenario A is in progress, on h3, with the first three
\* endpoints of the highway list published
C21_Witness ==
    /\ tg.pc = "A_cmd"
    /\ tg.cmd_node = "h3"
    /\ status_lock = "free"
    /\ traffic_status.current_scenario = L_A
    /\ PublishedNodes = <<"h1", "h2", "h3">>

\* update_status(label, []) has been called and the next statement of the loop has
\* not been reached: the label is about to be published or is the published one
Declaring(label, settle) ==
    \/ tg.pc \in {"update_status", "update_status_nodes"} /\ tg.upd_scenario = label
    \/ tg.pc = settle /\ traffic_status.current_scenario = label

\* C22: when "B-Urban-done" (resp. "C-Suburb-done") is published, at least the longest
\* duration handed to a flow of the phase plus one second has passed since the last
\* flow start of the phase, and every flow started in the phase has reached the end
\* of its duration.
C22_DoneAfterFlows ==
    (Declaring(L_B_done, "B_settle") \/ Declaring(L_C_done, "C_settle"))
        => /\ tg.longest > 0 => mono >= tg.last_start + tg.longest + Sec(1)
           /\ mono >= tg.flows_over

\* "B-Urban-done" is published after several flows of which the first, of the center,
\* is the longest, just when the wait after the last start is over
C22_Witness ==
    /\ tg.pc = "B_settle"
    /\ traffic_status.current_scenario = L_B_done
    /\ tg.longest = URB_CENTER_DUR_MAX
    /\ tg.flows_over < tg.last_start + tg.longest
    /\ mono = tg.last_start + tg.longest + Sec(1)

\* no element occurs twice in s
DuplicateFree(s) == \A i, j \in 1..Len(s) : i # j => s[i] # s[j]

InFlowStart == tg.cmd_node # ""

\* the generator thread is inside update_status with a non-empty list of nodes
PublishingActive ==
    /\ tg.pc \in {"update_status", "update_status_nodes"}
    /\ Deref(heap, tg.upd_nodes) # <<>>

\* C25 (as claimed): no flow-start command is issued and no phase label is published
\* with a non-empty active set at a moment when the time elapsed since start_time
\* exceeds duration_limit, in any of the three phases.
C25_WithinBudget == (InFlowStart \/ PublishingActive) => ~LimitExceeded

\* the locks the generator thread holds
TgHeld ==
    IF tg.pc = "killed" THEN {}
    ELSE (IF status_lock = "tg" THEN {"status_lock"} ELSE {}) \cup node_locks

\* the generator thread is at "with status_lock:" of update_status or of the finally
\* clause
TgAtStatusLock == tg.pc \in {"update_status", "finally"}

\* the generator thread is at a "with status_lock:" of lines 194-204 that the model
\* lets it enter
TgAtLoopLock ==
    \/ tg.pc = "validate" /\ ~tg.net.none
    \/ tg.pc = "cycle" /\ tg.cycle < MaxCycles

====
